---------------------------- MODULE Spec2Model ----------------------------
(***************************************************************************)
(* Index alignment of pandas Series and DataFrame objects, as exercised by *)
(* the cells of notebooks/03.03-Operations-in-Pandas.ipynb.                *)
(*                                                                         *)
(* A Series is an index (an ordered sequence of distinct keys) with one    *)
(* value per key; a DataFrame is an index (row keys), columns (column      *)
(* keys) and one row of values per row key.  A value is a number or NaN.   *)
(* The kernel state is the two operand names the notebook binds (A, B),    *)
(* the last call made, what that call returned or raised, the argument     *)
(* tuples the call handed to its element-wise function (applied), and the  *)
(* number of times a result has been bound to an operand name (rebinds).   *)
(*                                                                         *)
(* Spec runs one operation on operands drawn from bounded sets; Session    *)
(* starts from the notebook's own operands and also looks keys up, applies *)
(* a ufunc to a result and binds a result to the name A again.             *)
(***************************************************************************)
EXTENDS Integers, Sequences, FiniteSets

VARIABLES A, B, call, out, err, applied, rebinds

vars == <<A, B, call, out, err, applied, rebinds>>

---------------------------------------------------------------------------
(* Bounds of the model. *)

\* keys of an index are drawn from 0..MaxKey
MaxKey == 1

\* a session binds a result to an operand name at most MaxRebinds times
MaxRebinds == 1

\* and only a result whose numbers lie within -MaxAbs..MaxAbs
MaxAbs == 1000

---------------------------------------------------------------------------
(* Values. *)

\* NaN, the marker pandas stores for a missing entry.
NaN == <<>>

\* fill_value=None (the default of the arithmetic methods): no fill.  It is
\* represented like NaN: filling with it leaves a missing entry missing.
None == <<>>

\* a number stored in a container
Num(v) == <<v>>

isna(x) == x = NaN

\* The numbers stored in the operands: the first values of the notebook's
\* Series A = [2, 4, 6] and B = [1, 3, 5].
Numbers == {1, 2}

Values == {NaN} \cup {Num(v) : v \in Numbers}

\* fill_value arguments: None, and the notebook's fill_value=0, and 1
FillValues == {None, Num(0), Num(1)}

\* the element-wise binary functions applied to aligned operands
\* (+ and .add, - and .subtract of the operator table)
BinaryOps == {"add", "sub"}

\* the element-wise unary functions (negation, and squaring for a ufunc)
UnaryOps == {"negative", "square"}

\* f(x, y) on two numbers
apply2(f, x, y) ==
    CASE f = "add" -> x + y
      [] f = "sub" -> x - y

\* f(x) on one number
apply1(f, x) ==
    CASE f = "negative" -> 0 - x
      [] f = "square" -> x * x

\* An arithmetic that takes a missing entry for 0 when the other is a number.
arith_op_skipna(f, x, y) ==
    IF isna(x) /\ isna(y) THEN NaN
    ELSE Num(apply2(f, IF isna(x) THEN 0 ELSE x[1], IF isna(y) THEN 0 ELSE y[1]))

\* The vectorised binary function on two entries: floating-point arithmetic
\* with NaN in either place gives NaN.
arith_op(f, x, y) ==
    IF isna(x) \/ isna(y) THEN NaN ELSE Num(apply2(f, x[1], y[1]))

\* A ufunc that takes a missing entry for 0.
ufunc_op_zero(f, x) ==
    IF isna(x) THEN Num(apply1(f, 0)) ELSE Num(apply1(f, x[1]))

\* The ufunc on one entry: NaN gives NaN.
ufunc_op(f, x) ==
    IF isna(x) THEN NaN ELSE Num(apply1(f, x[1]))

---------------------------------------------------------------------------
(* Indexes. *)

Keys == 0..MaxKey

Range(s) == {s[i] : i \in DOMAIN s}

\* the index objects: sequences of distinct keys, in any order
Indexes ==
    UNION {{s \in [1..n -> Keys] : \A i, j \in 1..n : s[i] = s[j] => i = j}
           : n \in 0..(MaxKey + 1)}

\* the keys of a set in ascending order
RECURSIVE sort_values(_)
sort_values(S) ==
    IF S = {} THEN <<>>
    ELSE LET m == CHOOSE x \in S : \A y \in S : x <= y
         IN  <<m>> \o sort_values(S \ {m})

\* position of key k in an index that holds it
get_loc(index, k) == CHOOSE i \in DOMAIN index : index[i] = k

\* the keys of right that left lacks, in the order of right
RECURSIVE difference(_, _)
difference(right, left) ==
    IF right = <<>> THEN <<>>
    ELSE IF Head(right) \in Range(left) THEN difference(Tail(right), left)
    ELSE <<Head(right)>> \o difference(Tail(right), left)

\* The union in insertion order: the left keys, then the new right keys.
union_unsorted(left, right, sort) == left \o difference(right, left)

\* A join that appends the right keys to the left keys.
union_concat(left, right, sort) == left \o right

\* A join that keeps the keys both indexes hold.
union_inner(left, right, sort) ==
    sort_values(Range(left) \cap Range(right))

\* area.index.union(population.index), the outer join of two indexes that
\* alignment computes.  Equal indexes are not joined: the result is the
\* operand's index as it stands.  Otherwise the result is the sorted union
\* of the keys, except that a join with an empty index gives the other index
\* either as it stands or sorted, depending on the pandas release (sort).
union(left, right, sort) ==
    IF left = right THEN left
    ELSE IF (Len(right) = 0 \/ Len(left) = 0) /\ ~sort
         THEN left \o right
    ELSE sort_values(Range(left) \cup Range(right))

\* the outcomes a release can give for the join of two indexes
join_sorts(left, right) ==
    IF left # right /\ (Len(left) = 0 \/ Len(right) = 0)
    THEN BOOLEAN ELSE {TRUE}

---------------------------------------------------------------------------
(* Containers. *)

Series(index, values) ==
    [kind |-> "Series", index |-> index, values |-> values]

DataFrame(index, columns, values) ==
    [kind |-> "DataFrame", index |-> index, columns |-> columns,
     values |-> values]

\* nothing returned yet, or the call raised
NoResult == [kind |-> "None"]

\* ser[k]
Series_getitem(ser, k) == ser.values[get_loc(ser.index, k)]

\* df.loc[r, c]
DataFrame_getitem(df, r, c) ==
    df.values[get_loc(df.index, r)][get_loc(df.columns, c)]

\* A reindex that puts 0 where the key is absent.
Series_reindex_zero(ser, index) ==
    Series(index,
           [i \in 1..Len(index) |->
               IF index[i] \in Range(ser.index)
               THEN Series_getitem(ser, index[i]) ELSE Num(0)])

\* Series.reindex(index): present keys keep their value, absent ones get NaN
Series_reindex(ser, index) ==
    Series(index,
           [i \in 1..Len(index) |->
               IF index[i] \in Range(ser.index)
               THEN Series_getitem(ser, index[i]) ELSE NaN])

\* A reindex by position: the labels of the frame are not looked at.
DataFrame_reindex_positional(df, index, columns) ==
    DataFrame(index, columns,
              [i \in 1..Len(index) |->
                 [j \in 1..Len(columns) |->
                    IF i <= Len(df.index) /\ j <= Len(df.columns)
                    THEN df.values[i][j] ELSE NaN]])

\* DataFrame.reindex(index=, columns=)
DataFrame_reindex(df, index, columns) ==
    DataFrame(index, columns,
              [i \in 1..Len(index) |->
                 [j \in 1..Len(columns) |->
                    IF index[i] \in Range(df.index)
                       /\ columns[j] \in Range(df.columns)
                    THEN DataFrame_getitem(df, index[i], columns[j])
                    ELSE NaN]])

\* A fill that replaces the left entry whenever a fill value is given.
fill_left_always(x, y, fill_value) ==
    IF fill_value # None THEN fill_value ELSE x

\* ops.fill_binop: with a fill value, an entry missing on exactly one side
\* is replaced by the fill value; an entry missing on both sides stays NaN.
fill_left(x, y, fill_value) ==
    IF fill_value # None /\ isna(x) /\ ~isna(y) THEN fill_value ELSE x

\* A fill that never stands in for the right operand.
fill_right_never(x, y, fill_value) == y

fill_right(x, y, fill_value) ==
    IF fill_value # None /\ isna(y) /\ ~isna(x) THEN fill_value ELSE y

\* A fill_binop that fills every missing entry, on both sides at once too.
fill_binop_both(f, x, y, fill_value) ==
    arith_op(f, IF fill_value # None /\ isna(x) THEN fill_value ELSE x,
                IF fill_value # None /\ isna(y) THEN fill_value ELSE y)

\* A fill_binop that drops the fill value.
fill_binop_nofill(f, x, y, fill_value) == arith_op(f, x, y)

fill_binop(f, x, y, fill_value) ==
    arith_op(f, fill_left(x, y, fill_value), fill_right(x, y, fill_value))

---------------------------------------------------------------------------
(* The operations. *)

\* Series + Series (A + B, A.add(B, fill_value=0)): both operands are
\* reindexed onto the union of their indexes, then combined entry by entry.
Series_arith(left, right, f, fill_value, sort) ==
    LET index == union(left.index, right.index, sort)
        l == Series_reindex(left, index)
        r == Series_reindex(right, index)
    IN  Series(index,
               [i \in 1..Len(index) |->
                   fill_binop(f, l.values[i], r.values[i], fill_value)])

\* The argument pairs Series_arith hands to f: the whole reindexed arrays,
\* after the fill, go through the vectorised function, missing entries
\* included.
Series_arith_args(left, right, fill_value, sort) ==
    LET index == union(left.index, right.index, sort)
        l == Series_reindex(left, index)
        r == Series_reindex(right, index)
    IN  {<<fill_left(l.values[i], r.values[i], fill_value),
           fill_right(l.values[i], r.values[i], fill_value)>>
         : i \in 1..Len(index)}

\* An addition that lines the right frame up by position.
DataFrame_arith_positional(left, right, f, fill_value, sort) ==
    LET index == union(left.index, right.index, sort)
        columns == union(left.columns, right.columns, sort)
        l == DataFrame_reindex(left, index, columns)
        r == DataFrame_reindex_positional(right, index, columns)
    IN  DataFrame(index, columns,
                  [i \in 1..Len(index) |->
                     [j \in 1..Len(columns) |->
                        fill_binop(f, l.values[i][j], r.values[i][j],
                                   fill_value)]])

\* DataFrame + DataFrame (A + B, A.add(B, fill_value=...)): rows and columns
\* are each aligned on the union.
DataFrame_arith(left, right, f, fill_value, sort) ==
    LET index == union(left.index, right.index, sort)
        columns == union(left.columns, right.columns, sort)
        l == DataFrame_reindex(left, index, columns)
        r == DataFrame_reindex(right, index, columns)
    IN  DataFrame(index, columns,
                  [i \in 1..Len(index) |->
                     [j \in 1..Len(columns) |->
                        fill_binop(f, l.values[i][j], r.values[i][j],
                                   fill_value)]])

\* the argument pairs DataFrame_arith hands to f
DataFrame_arith_args(left, right, fill_value, sort) ==
    LET index == union(left.index, right.index, sort)
        columns == union(left.columns, right.columns, sort)
        l == DataFrame_reindex(left, index, columns)
        r == DataFrame_reindex(right, index, columns)
    IN  {<<fill_left(l.values[i][j], r.values[i][j], fill_value),
           fill_right(l.values[i][j], r.values[i][j], fill_value)>>
         : i \in 1..Len(index), j \in 1..Len(columns)}

\* The axis numbers of a DataFrame.  Matching the Series on the column keys
\* and operating row-wise is axis 1, the default of the operators;
\* df.subtract(df['R'], axis=0) matches on the row keys (column-wise).
RowWise == 1

ColumnWise == 0

\* A row-wise operation that keeps the columns of the frame only.
DataFrame_Series_rowwise_left(df, ser, f, sort) ==
    LET r == Series_reindex(ser, df.columns)
    IN  DataFrame(df.index, df.columns,
                  [i \in 1..Len(df.index) |->
                     [j \in 1..Len(df.columns) |->
                        arith_op(f, df.values[i][j], r.values[j])]])

\* DataFrame - Series with the Series matched on the column keys (df -
\* df.iloc[0], df - halfrow): the columns are aligned on the union and the
\* Series is combined with every row.
DataFrame_Series_rowwise(df, ser, f, sort) ==
    LET columns == union(df.columns, ser.index, sort)
        l == DataFrame_reindex(df, df.index, columns)
        r == Series_reindex(ser, columns)
    IN  DataFrame(df.index, columns,
                  [i \in 1..Len(df.index) |->
                     [j \in 1..Len(columns) |->
                        arith_op(f, l.values[i][j], r.values[j])]])

\* the argument pairs DataFrame_Series_rowwise hands to f
DataFrame_Series_rowwise_args(df, ser, sort) ==
    LET columns == union(df.columns, ser.index, sort)
        l == DataFrame_reindex(df, df.index, columns)
        r == Series_reindex(ser, columns)
    IN  {<<l.values[i][j], r.values[j]>>
         : i \in 1..Len(df.index), j \in 1..Len(columns)}

\* A column-wise operation that matches the Series on the column keys.
DataFrame_Series_columnwise_as_rowwise(df, ser, f, sort) ==
    DataFrame_Series_rowwise(df, ser, f, sort)

\* A column-wise operation that gives back the aligned Series.
DataFrame_Series_columnwise_reduced(df, ser, f, sort) ==
    Series_reindex(ser, union(df.index, ser.index, sort))

\* DataFrame - Series with the Series matched on the row keys
\* (df.subtract(df['R'], axis=0)): the rows are aligned on the union and the
\* Series is combined with every column.
DataFrame_Series_columnwise(df, ser, f, sort) ==
    LET index == union(df.index, ser.index, sort)
        l == DataFrame_reindex(df, index, df.columns)
        r == Series_reindex(ser, index)
    IN  DataFrame(index, df.columns,
                  [i \in 1..Len(index) |->
                     [j \in 1..Len(df.columns) |->
                        arith_op(f, l.values[i][j], r.values[i])]])

\* the argument pairs DataFrame_Series_columnwise hands to f
DataFrame_Series_columnwise_args(df, ser, sort) ==
    LET index == union(df.index, ser.index, sort)
        l == DataFrame_reindex(df, index, df.columns)
        r == Series_reindex(ser, index)
    IN  {<<l.values[i][j], r.values[i]>>
         : i \in 1..Len(index), j \in 1..Len(df.columns)}

\* what a call gives back: a container, or an exception and no container
Return(x) == [err |-> "", out |-> x]

Raise(e) == [err |-> e, out |-> NoResult]

\* A method that takes every axis other than 1 for axis 0.
DataFrame_flex_Series_anyaxis(df, ser, f, axis, fill_value, sort) ==
    IF fill_value # None THEN Raise("NotImplementedError")
    ELSE IF axis = RowWise
         THEN Return(DataFrame_Series_rowwise(df, ser, f, sort))
    ELSE Return(DataFrame_Series_columnwise(df, ser, f, sort))

\* df.subtract(ser, axis=..., fill_value=...): the axis is resolved first
\* (ValueError: No axis named ...), a fill value is not supported with a
\* Series operand (NotImplementedError).
DataFrame_flex_Series(df, ser, f, axis, fill_value, sort) ==
    IF axis \notin {RowWise, ColumnWise} THEN Raise("ValueError")
    ELSE IF fill_value # None THEN Raise("NotImplementedError")
    ELSE IF axis = RowWise
         THEN Return(DataFrame_Series_rowwise(df, ser, f, sort))
    ELSE Return(DataFrame_Series_columnwise(df, ser, f, sort))

\* the arguments DataFrame_flex_Series hands to f: none when it raises
DataFrame_flex_Series_args(df, ser, axis, fill_value, sort) ==
    IF axis \notin {RowWise, ColumnWise} \/ fill_value # None THEN {}
    ELSE IF axis = RowWise THEN DataFrame_Series_rowwise_args(df, ser, sort)
    ELSE DataFrame_Series_columnwise_args(df, ser, sort)

\* A ufunc on the bare array: the values come back under default labels.
ufunc_raw(f, x) ==
    IF x.kind = "Series"
    THEN Series([i \in 1..Len(x.index) |-> i - 1],
                [i \in 1..Len(x.index) |-> ufunc_op(f, x.values[i])])
    ELSE DataFrame([i \in 1..Len(x.index) |-> i - 1],
                   [j \in 1..Len(x.columns) |-> j - 1],
                   [i \in 1..Len(x.index) |->
                      [j \in 1..Len(x.columns) |->
                         ufunc_op(f, x.values[i][j])]])

\* np.exp(ser), np.sin(df): the ufunc is applied to every value and the
\* labels of the operand are kept.
ufunc(f, x) ==
    IF x.kind = "Series"
    THEN Series(x.index, [i \in 1..Len(x.index) |-> ufunc_op(f, x.values[i])])
    ELSE DataFrame(x.index, x.columns,
                   [i \in 1..Len(x.index) |->
                      [j \in 1..Len(x.columns) |->
                         ufunc_op(f, x.values[i][j])]])

\* the arguments a ufunc is applied to: every value of the operand
ufunc_args(x) ==
    IF x.kind = "Series"
    THEN {<<x.values[i]>> : i \in 1..Len(x.index)}
    ELSE {<<x.values[i][j]>> : i \in 1..Len(x.index), j \in 1..Len(x.columns)}

---------------------------------------------------------------------------
(* The operands the kernel can hold. *)

\* The value lists handed to pd.Series: the numbers alternate along the
\* list, and at most one entry is missing.
ListSet(n) ==
    {values \in [1..n -> Values] :
        /\ \A i \in 1..n : ~isna(values[i]) => values[i] = Num(1 + (i % 2))
        /\ \A i, j \in 1..n : isna(values[i]) /\ isna(values[j]) => i = j}

\* pd.Series(values, index=index)
SeriesSet ==
    UNION {{Series(index, values) : values \in ListSet(Len(index))}
           : index \in Indexes}

\* The value arrays handed to pd.DataFrame: integer arrays as drawn by
\* rng.integers, and the same with the first entry missing.
ArraySet(n, m) ==
    LET ints == [i \in 1..n |-> [j \in 1..m |-> Num(1 + ((i + j) % 2))]]
    IN  IF n = 0 \/ m = 0 THEN {ints}
        ELSE {ints, [ints EXCEPT ![1][1] = NaN]}

\* the default row index of a DataFrame of n rows: 0, 1, ..., n-1
RangeIndex(n) == [i \in 1..n |-> i - 1]

\* the same keys, last first
reversed(index) == [i \in 1..Len(index) |-> index[Len(index) + 1 - i]]

\* the number of rows of the notebook's DataFrame A
\* (rng.integers(0, 20, (2, 2))); the frames of the model have up to as many
Rows == 2

\* the row indexes of the DataFrames: the default index, or the same keys
\* given explicitly in descending order
RowIndexes ==
    UNION {{RangeIndex(n), reversed(RangeIndex(n))} : n \in 0..Rows}

\* pd.DataFrame(values, columns=columns), pd.DataFrame(values, index=index,
\* columns=columns): the columns are named in any order
\* (columns=['b', 'a', 'c'])
FrameSet ==
    UNION {{DataFrame(index, columns, values)
              : values \in ArraySet(Len(index), Len(columns))}
           : index \in RowIndexes, columns \in Indexes}

\* The Series taken out of a DataFrame of numbers (df.iloc[0], df['R'],
\* df.iloc[0, ::2]): every value is a number.
NumericSeriesSet == {ser \in SeriesSet : \A i \in DOMAIN ser.values : ~isna(ser.values[i])}

\* the DataFrames built from an integer array (rng.integers)
NumericFrameSet ==
    {df \in FrameSet :
       \A i \in DOMAIN df.index, j \in DOMAIN df.columns : ~isna(df.values[i][j])}

\* the axis arguments tried: the two axes and a number that names none
AxisArgs == {ColumnWise, RowWise, 2}

NoCall == [op |-> "none"]

---------------------------------------------------------------------------
(* The kernel. *)

\* The operands are bound as in the cells that construct them: one Series
\* or DataFrame alone (ser, df of the ufunc cells), two Series, two
\* DataFrames, or a DataFrame and a Series taken out of a DataFrame.
Init ==
    /\ \/ A \in SeriesSet \cup FrameSet /\ B = NoResult
       \/ A \in SeriesSet /\ B \in SeriesSet
       \/ A \in FrameSet /\ B \in NumericFrameSet
       \/ A \in FrameSet /\ B \in NumericSeriesSet
    /\ call = NoCall
    /\ out = NoResult
    /\ err = ""
    /\ applied = {}
    /\ rebinds = 0

\* A + B on two Series (the operator passes no fill value)
Series_binop ==
    /\ A.kind = "Series" /\ B.kind = "Series"
    /\ \E f \in BinaryOps, sort \in join_sorts(A.index, B.index) :
         /\ call' = [op |-> "binary", f |-> f, fill_value |-> None,
                     axis |-> RowWise]
         /\ out' = Series_arith(A, B, f, None, sort)
         /\ applied' = Series_arith_args(A, B, None, sort)
    /\ err' = ""
    /\ UNCHANGED <<A, B, rebinds>>

\* An add that works in place: A is rebound to the result.
Series_flex_inplace ==
    /\ A.kind = "Series" /\ B.kind = "Series"
    /\ \E f \in BinaryOps, fill_value \in FillValues,
          sort \in join_sorts(A.index, B.index) :
         /\ call' = [op |-> "binary", f |-> f, fill_value |-> fill_value,
                     axis |-> RowWise]
         /\ out' = Series_arith(A, B, f, fill_value, sort)
         /\ applied' = Series_arith_args(A, B, fill_value, sort)
         /\ A' = Series_arith(A, B, f, fill_value, sort)
    /\ err' = ""
    /\ UNCHANGED <<B, rebinds>>

\* A.add(B, fill_value=...) on two Series
Series_flex ==
    /\ A.kind = "Series" /\ B.kind = "Series"
    /\ \E f \in BinaryOps, fill_value \in FillValues,
          sort \in join_sorts(A.index, B.index) :
         /\ call' = [op |-> "binary", f |-> f, fill_value |-> fill_value,
                     axis |-> RowWise]
         /\ out' = Series_arith(A, B, f, fill_value, sort)
         /\ applied' = Series_arith_args(A, B, fill_value, sort)
    /\ err' = ""
    /\ UNCHANGED <<A, B, rebinds>>

\* An operator that refuses frames of different shapes.
DataFrame_binop_strict ==
    /\ A.kind = "DataFrame" /\ B.kind = "DataFrame"
    /\ \E f \in BinaryOps,
          sort \in join_sorts(A.index, B.index)
                     \cup join_sorts(A.columns, B.columns) :
         /\ call' = [op |-> "binary", f |-> f, fill_value |-> None,
                     axis |-> RowWise]
         /\ IF Len(A.index) = Len(B.index) /\ Len(A.columns) = Len(B.columns)
            THEN /\ out' = DataFrame_arith(A, B, f, None, sort)
                 /\ applied' = DataFrame_arith_args(A, B, None, sort)
                 /\ err' = ""
            ELSE out' = NoResult /\ applied' = {} /\ err' = "ValueError"
    /\ UNCHANGED <<A, B, rebinds>>

\* A + B on two DataFrames
DataFrame_binop ==
    /\ A.kind = "DataFrame" /\ B.kind = "DataFrame"
    /\ \E f \in BinaryOps,
          sort \in join_sorts(A.index, B.index)
                     \cup join_sorts(A.columns, B.columns) :
         /\ call' = [op |-> "binary", f |-> f, fill_value |-> None,
                     axis |-> RowWise]
         /\ out' = DataFrame_arith(A, B, f, None, sort)
         /\ applied' = DataFrame_arith_args(A, B, None, sort)
    /\ err' = ""
    /\ UNCHANGED <<A, B, rebinds>>

\* A.add(B, fill_value=...) on two DataFrames
DataFrame_flex ==
    /\ A.kind = "DataFrame" /\ B.kind = "DataFrame"
    /\ \E f \in BinaryOps, fill_value \in FillValues,
          sort \in join_sorts(A.index, B.index)
                     \cup join_sorts(A.columns, B.columns) :
         /\ call' = [op |-> "binary", f |-> f, fill_value |-> fill_value,
                     axis |-> RowWise]
         /\ out' = DataFrame_arith(A, B, f, fill_value, sort)
         /\ applied' = DataFrame_arith_args(A, B, fill_value, sort)
    /\ err' = ""
    /\ UNCHANGED <<A, B, rebinds>>

\* df - halfrow: a DataFrame and a Series under the operator
DataFrame_Series_binop ==
    /\ A.kind = "DataFrame" /\ B.kind = "Series"
    /\ \E f \in BinaryOps, sort \in join_sorts(A.columns, B.index) :
         /\ call' = [op |-> "binary", f |-> f, fill_value |-> None,
                     axis |-> RowWise]
         /\ out' = DataFrame_Series_rowwise(A, B, f, sort)
         /\ applied' = DataFrame_Series_rowwise_args(A, B, sort)
    /\ err' = ""
    /\ UNCHANGED <<A, B, rebinds>>

\* df.subtract(df['R'], axis=0): a DataFrame and a Series under the method
DataFrame_Series_flex ==
    /\ A.kind = "DataFrame" /\ B.kind = "Series"
    /\ \E f \in BinaryOps, axis \in AxisArgs, fill_value \in {None, Num(0)} :
       \E sort \in join_sorts(IF axis = ColumnWise THEN A.index
                              ELSE A.columns, B.index) :
         LET r == DataFrame_flex_Series(A, B, f, axis, fill_value, sort)
         IN  /\ call' = [op |-> "binary", f |-> f, fill_value |-> fill_value,
                         axis |-> axis]
             /\ out' = r.out
             /\ err' = r.err
             /\ applied' = DataFrame_flex_Series_args(A, B, axis, fill_value,
                                                     sort)
    /\ UNCHANGED <<A, B, rebinds>>

\* np.exp(ser), np.sin(df): a ufunc on the operand bound to A
apply_ufunc ==
    /\ B.kind = "None"
    /\ \E f \in UnaryOps :
         /\ call' = [op |-> "ufunc", f |-> f, fill_value |-> None,
                     axis |-> RowWise]
         /\ out' = ufunc(f, A)
         /\ applied' = ufunc_args(A)
    /\ err' = ""
    /\ UNCHANGED <<A, B, rebinds>>

Next ==
    \/ Series_binop
    \/ Series_flex
    \/ DataFrame_binop
    \/ DataFrame_flex
    \/ DataFrame_Series_binop
    \/ DataFrame_Series_flex
    \/ apply_ufunc

Spec == Init /\ [][Next]_vars

---------------------------------------------------------------------------
(* The notebook as a session: its own operands, results looked into, handed *)
(* to a ufunc and bound to a name again.                                    *)

\* ser = pd.Series(rng.integers(0, 10, 4))
notebook_ser == Series(<<0, 1, 2, 3>>, <<Num(0), Num(7), Num(6), Num(4)>>)

\* A = pd.Series([2, 4, 6], index=[0, 1, 2])
A_Series == Series(<<0, 1, 2>>, <<Num(2), Num(4), Num(6)>>)

\* B = pd.Series([1, 3, 5], index=[1, 2, 3])
B_Series == Series(<<1, 2, 3>>, <<Num(1), Num(3), Num(5)>>)

\* A = pd.DataFrame(rng.integers(0, 20, (2, 2)), columns=['a', 'b']); the
\* column names a, b, c are the keys 0, 1, 2
A_DataFrame ==
    DataFrame(<<0, 1>>, <<0, 1>>,
              <<<<Num(10), Num(2)>>, <<Num(16), Num(9)>>>>)

\* B = pd.DataFrame(rng.integers(0, 10, (3, 3)), columns=['b', 'a', 'c'])
B_DataFrame ==
    DataFrame(<<0, 1, 2>>, <<1, 0, 2>>,
              <<<<Num(5), Num(3), Num(1)>>, <<Num(9), Num(7), Num(6)>>,
                <<Num(4), Num(8), Num(5)>>>>)

\* df = pd.DataFrame(A, columns=['Q', 'R', 'S', 'T']); the column names
\* Q, R, S, T are the keys 0, 1, 2, 3
notebook_df ==
    DataFrame(<<0, 1, 2>>, <<0, 1, 2, 3>>,
              <<<<Num(4), Num(4), Num(2), Num(0)>>,
                <<Num(5), Num(8), Num(0), Num(8)>>,
                <<Num(8), Num(2), Num(6), Num(1)>>>>)

\* halfrow = df.iloc[0, ::2]
halfrow == Series(<<0, 2>>, <<Num(4), Num(2)>>)

\* df.iloc[0]
df_iloc_0 == Series(<<0, 1, 2, 3>>, <<Num(4), Num(4), Num(2), Num(0)>>)

\* df['R']
df_R == Series(<<0, 1, 2>>, <<Num(4), Num(8), Num(2)>>)

\* the keys tried in a lookup: the keys of the notebook's containers, and
\* one that none of them holds
LookupKeys == 0..4

\* x.loc[k] on a Series, and on a DataFrame x[k] (axis 1, a column) or
\* x.loc[k] (axis 0, a row): the entry, column or row under the key, or
\* KeyError when x does not hold the key
loc(x, axis, k) ==
    IF x.kind = "Series"
    THEN IF k \in Range(x.index)
         THEN Return([kind |-> "scalar", value |-> Series_getitem(x, k)])
         ELSE Raise("KeyError")
    ELSE IF axis = RowWise
    THEN IF k \in Range(x.columns)
         THEN Return(Series(x.index,
                            [i \in 1..Len(x.index) |->
                                x.values[i][get_loc(x.columns, k)]]))
         ELSE Raise("KeyError")
    ELSE IF k \in Range(x.index)
         THEN Return(Series(x.columns, x.values[get_loc(x.index, k)]))
         ELSE Raise("KeyError")

\* the cells that bind the operands, each with the names it leaves bound
SessionInit ==
    /\ \/ A = notebook_ser /\ B = NoResult
       \/ A = A_Series /\ B = B_Series
       \/ A = A_DataFrame /\ B = B_DataFrame
       \/ A = notebook_df /\ B \in {halfrow, df_iloc_0, df_R}
    /\ call = NoCall
    /\ out = NoResult
    /\ err = ""
    /\ applied = {}
    /\ rebinds = 0

\* np.sin(df * np.pi / 4): a ufunc on the result of a binary operation
apply_ufunc_result ==
    /\ call.op = "binary" /\ err = ""
    /\ \E f \in UnaryOps :
         /\ call' = [op |-> "ufunc_result", f |-> f, arg |-> out]
         /\ out' = ufunc(f, out)
    /\ applied' = ufunc_args(out)
    /\ err' = ""
    /\ UNCHANGED <<A, B, rebinds>>

\* df['R'], df.iloc[0]: a lookup in an operand
getitem_operand ==
    /\ \E name \in {"A", "B"}, axis \in {ColumnWise, RowWise}, k \in LookupKeys :
         LET x == IF name = "A" THEN A ELSE B
             r == loc(x, axis, k)
         IN  /\ x.kind # "None"
             /\ x.kind = "Series" => axis = ColumnWise
             /\ call' = [op |-> "getitem", name |-> name, obj |-> x,
                         axis |-> axis, key |-> k]
             /\ out' = r.out
             /\ err' = r.err
    /\ applied' = {}
    /\ UNCHANGED <<A, B, rebinds>>

\* (A + B)[k]: a lookup in the result of a binary operation
getitem_result ==
    /\ call.op = "binary" /\ err = ""
    /\ \E axis \in {ColumnWise, RowWise}, k \in LookupKeys :
         LET r == loc(out, axis, k)
         IN  /\ out.kind = "Series" => axis = ColumnWise
             /\ call' = [op |-> "getitem", name |-> "out", obj |-> out,
                         axis |-> axis, key |-> k, after |-> call]
             /\ out' = r.out
             /\ err' = r.err
    /\ applied' = {}
    /\ UNCHANGED <<A, B, rebinds>>

\* every number of the container lies within -MaxAbs..MaxAbs
within_MaxAbs(x) ==
    \A a \in ufunc_args(x) : ~isna(a[1]) => a[1][1] \in (0 - MaxAbs)..MaxAbs

\* A = A + B, A = np.exp(A): the result of the last operation becomes the
\* operand A of the operations that follow
rebind ==
    /\ rebinds < MaxRebinds
    /\ out.kind = A.kind /\ within_MaxAbs(out)
    /\ call.op \in {"binary", "ufunc", "ufunc_result"}
    /\ err = "" /\ out.kind = A.kind
    /\ A' = out
    /\ rebinds' = rebinds + 1
    /\ call' = NoCall
    /\ out' = NoResult
    /\ applied' = {}
    /\ UNCHANGED <<B, err>>

SessionNext ==
    \/ Series_binop
    \/ Series_flex
    \/ DataFrame_binop
    \/ DataFrame_flex
    \/ DataFrame_Series_binop
    \/ DataFrame_Series_flex
    \/ apply_ufunc
    \/ apply_ufunc_result
    \/ getitem_operand
    \/ getitem_result
    \/ rebind

Session == SessionInit /\ [][SessionNext]_vars

---------------------------------------------------------------------------
(* Vocabulary of the properties. *)

\* a binary operation on two Series has returned
SeriesResult ==
    /\ A.kind = "Series" /\ B.kind = "Series"
    /\ call.op = "binary" /\ out.kind = "Series"

\* a binary operation on two DataFrames has returned
FrameResult ==
    /\ A.kind = "DataFrame" /\ B.kind = "DataFrame"
    /\ call.op = "binary" /\ out.kind = "DataFrame"

\* a binary operation on a DataFrame and a Series has been called
FrameSeriesCall ==
    /\ A.kind = "DataFrame" /\ B.kind = "Series"
    /\ call.op = "binary"

is_unique(index) ==
    \A i, j \in DOMAIN index : index[i] = index[j] => i = j

is_ascending(index) ==
    \A i, j \in DOMAIN index : i < j => index[i] < index[j]

\* res holds exactly the keys of l and r, each once
is_union(res, l, r) ==
    /\ Range(res) = Range(l) \cup Range(r)
    /\ is_unique(res)

\* res holds the keys of l and r in ascending order
is_sorted_union(res, l, r) ==
    is_union(res, l, r) /\ is_ascending(res)

\* res holds the keys of l and r: as they stand when l and r are the same
\* key sequence, in ascending order when l and r differ and neither is
\* empty, in any order when one of them is empty
is_aligned_union(res, l, r) ==
    /\ is_union(res, l, r)
    /\ l = r => res = l
    /\ (l # r /\ Len(l) > 0 /\ Len(r) > 0) => is_ascending(res)

---------------------------------------------------------------------------
(* C1 *)

---------------------------------------------------------------------------
(* C2 *)

---------------------------------------------------------------------------
(* C3 *)

\* C3: with a fill value v, the result of a binary operation f on two Series
\* is f(v, B[k]) at every key k of B that A lacks and f(A[k], v) at every key
\* k of A that B lacks (f of a stored NaN being NaN).
C3_FillStandsForAbsentOperand ==
    (SeriesResult /\ call.fill_value # None) =>
        /\ \A k \in Range(B.index) \ Range(A.index) :
              Series_getitem(out, k)
                 = arith_op(call.f, call.fill_value, Series_getitem(B, k))
        /\ \A k \in Range(A.index) \ Range(B.index) :
              Series_getitem(out, k)
                 = arith_op(call.f, Series_getitem(A, k), call.fill_value)

\* C3: A = {0: 2}, B = {1: 2} subtracted with fill 1: 2 - 1 at 0, 1 - 2 at 1
C3_Witness ==
    /\ SeriesResult /\ call.fill_value = Num(1) /\ call.f = "sub"
    /\ A = Series(<<0>>, <<Num(2)>>)
    /\ B = Series(<<1>>, <<Num(2)>>)
    /\ out = Series(<<0, 1>>, <<Num(1), Num(0 - 1)>>)

---------------------------------------------------------------------------
(* C4 *)

\* the cells of the result of a binary operation on two DataFrames: f of the
\* two cells where both operands have the row and the column, NaN elsewhere
C4_Cells ==
    \A r \in Range(out.index), c \in Range(out.columns) :
        DataFrame_getitem(out, r, c) =
            IF /\ r \in Range(A.index) /\ c \in Range(A.columns)
               /\ r \in Range(B.index) /\ c \in Range(B.columns)
            THEN arith_op(call.f, DataFrame_getitem(A, r, c),
                          DataFrame_getitem(B, r, c))
            ELSE NaN

---------------------------------------------------------------------------
(* C5 *)

\* C5: a ufunc returns a container of the kind of its operand, with the same
\* keys in the same order (rows and, for a DataFrame, columns), holding f(v)
\* wherever the operand holds a number v.
C5_UfuncKeepsLabels ==
    call.op = "ufunc" =>
        /\ out.kind = A.kind
        /\ out.index = A.index
        /\ A.kind = "Series" =>
              \A i \in DOMAIN A.values :
                  ~isna(A.values[i]) =>
                      out.values[i] = Num(apply1(call.f, A.values[i][1]))
        /\ A.kind = "DataFrame" =>
              /\ out.columns = A.columns
              /\ \A i \in DOMAIN A.index, j \in DOMAIN A.columns :
                    ~isna(A.values[i][j]) =>
                        out.values[i][j]
                           = Num(apply1(call.f, A.values[i][j][1]))

\* C5: the negation of a frame with rows 1, 0 and columns 1, 0
C5_Witness ==
    /\ call.op = "ufunc" /\ call.f = "negative"
    /\ A.kind = "DataFrame"
    /\ A.index = <<1, 0>> /\ A.columns = <<1, 0>>
    /\ A.values[1][2] = Num(2)
    /\ out.values[1][2] = Num(0 - 2)
    /\ out.index = <<1, 0>> /\ out.columns = <<1, 0>>

---------------------------------------------------------------------------
(* C6 *)

\* a DataFrame and a Series combined row-wise (the default axis), no fill
RowWiseCall ==
    FrameSeriesCall /\ call.axis = RowWise /\ call.fill_value = None

\* the cells of a row-wise result: f(T[r][c], V[c]) in the columns both
\* have, NaN in the columns only one has, for every row
C6_Cells ==
    \A r \in Range(A.index), c \in Range(out.columns) :
        DataFrame_getitem(out, r, c) =
            IF c \in Range(A.columns) /\ c \in Range(B.index)
            THEN arith_op(call.f, DataFrame_getitem(A, r, c),
                          Series_getitem(B, c))
            ELSE NaN

---------------------------------------------------------------------------
(* C7 *)

\* a DataFrame and a Series combined column-wise (axis=0), no fill
ColumnWiseCall ==
    FrameSeriesCall /\ call.axis = ColumnWise /\ call.fill_value = None

\* the cells of a column-wise result in the rows both operands have:
\* f(T[r][c], V[r]) in every column
C7_Cells ==
    \A r \in Range(A.index) \cap Range(B.index), c \in Range(A.columns) :
        DataFrame_getitem(out, r, c) =
            arith_op(call.f, DataFrame_getitem(A, r, c), Series_getitem(B, r))

---------------------------------------------------------------------------
(* C8 *)

\* C8: no step of the kernel changes an operand: after every call, with or
\* without a fill value, on any axis, returning or raising, A and B hold the
\* keys and values they held before, and so does every later call find them.
C8_OperandsNeverMutated == [][A' = A /\ B' = B]_vars

\* C8: a call with a fill value has returned a result that differs from
\* both operands
C8_Witness ==
    /\ FrameResult /\ call.fill_value = Num(1)
    /\ out # A /\ out # B

---------------------------------------------------------------------------
(* C9 *)

\* C9: a binary operation on two Series or on two DataFrames never raises:
\* it returns a container of that kind over the union of the keys, whatever
\* the key sets are.
C9_AlignmentNeverFails ==
    (A.kind = B.kind /\ call.op = "binary") =>
        /\ err = ""
        /\ out.kind = A.kind
        /\ is_union(out.index, A.index, B.index)
        /\ A.kind = "DataFrame" =>
              is_union(out.columns, A.columns, B.columns)

\* C9: a 1x1 frame and a 2x1 frame with no column in common: a 2x2 result
\* that is NaN everywhere
C9_Witness ==
    /\ FrameResult
    /\ A.index = <<0>> /\ A.columns = <<0>>
    /\ B.index = <<0, 1>> /\ B.columns = <<1>>
    /\ out.values = <<<<NaN, NaN>>, <<NaN, NaN>>>>

---------------------------------------------------------------------------
(* C10 *)

\* C10: a call on a DataFrame and a Series with an axis that is neither of
\* the two axes raises ValueError (no axis of that name), returns no
\* container and leaves both operands as they were; with one of the two
\* axes it never raises that error.
C10_InvalidAxisRaises ==
    [][FrameSeriesCall' =>
          /\ A' = A /\ B' = B
          /\ call'.axis \notin {RowWise, ColumnWise} =>
                err' = "ValueError" /\ out'.kind = "None"
          /\ call'.axis \in {RowWise, ColumnWise} => err' # "ValueError"]_vars

\* C10: the call with axis 2 has raised
C10_Witness ==
    /\ FrameSeriesCall /\ call.axis = 2
    /\ err = "ValueError" /\ out.kind = "None"
    /\ Len(A.index) > 0 /\ Len(B.index) > 0

---------------------------------------------------------------------------
\* C11: for two Series A and B, A.add(B, fill_value=0) and
\* B.add(A, fill_value=0) are the same Series: the same keys in the same
\* order and the same value at every key (sort is the join outcome of the
\* release that produced the result).
C11_AddFillZeroCommutes ==
    SeriesResult /\ call.f = "add" /\ call.fill_value = Num(0) =>
        \A sort \in join_sorts(A.index, B.index) :
            out = Series_arith(A, B, "add", Num(0), sort) =>
                out = Series_arith(B, A, "add", Num(0), sort)

\* A.add(B, fill_value=0) has returned for Series that each hold a key the
\* other lacks; no entry of the result is missing and B.add(A, fill_value=0)
\* gives the same Series.
C11_Witness ==
    /\ SeriesResult /\ call.f = "add" /\ call.fill_value = Num(0)
    /\ Range(A.index) \ Range(B.index) # {}
    /\ Range(B.index) \ Range(A.index) # {}
    /\ out.index = <<0, 1>>
    /\ \A i \in DOMAIN out.values : ~isna(out.values[i])
    /\ out = Series_arith(B, A, "add", Num(0), TRUE)

---------------------------------------------------------------------------
\* the same keys listed in every order
orderings(index) ==
    {s \in [1..Len(index) -> Range(index)] :
        \A i, j \in 1..Len(index) : s[i] = s[j] => i = j}

\* the frames that hold what df holds with the keys of one axis listed in
\* another order (the values move with their keys)
relabelled(df) ==
    {DataFrame_reindex(df, df.index, columns) : columns \in orderings(df.columns)}
    \cup {DataFrame_reindex(df, index, df.columns) : index \in orderings(df.index)}

\* the join outcomes under which the call on A and B gives what it returned
C12_Releases ==
    {sort \in BOOLEAN :
        out = DataFrame_arith(A, B, call.f, call.fill_value, sort)}

\* what the same call gives, in the same release, on the operands left and
\* right
C12_Results(left, right) ==
    {DataFrame_arith(left, right, call.f, call.fill_value, sort)
       : sort \in C12_Releases}

\* the frames res and out hold the same keys and the same value under every
\* (row key, column key)
same_cells(res) ==
    /\ Range(res.index) = Range(out.index)
    /\ Range(res.columns) = Range(out.columns)
    /\ \A r \in Range(out.index), c \in Range(out.columns) :
          DataFrame_getitem(res, r, c) = DataFrame_getitem(out, r, c)

---------------------------------------------------------------------------
\* a ufunc has returned, on the operand A or on the result of a binary
\* operation
UfuncCall == call.op \in {"ufunc", "ufunc_result"} /\ err = ""

\* the container the ufunc was called on
C13_Input == IF call.op = "ufunc" THEN A ELSE call.arg

\* the entries of x and y, two containers of one shape, position by position
entries(x, y) ==
    IF x.kind = "Series"
    THEN {<<x.values[i], y.values[i]>> : i \in 1..Len(x.index)}
    ELSE {<<x.values[i][j], y.values[i][j]>>
          : i \in 1..Len(x.index), j \in 1..Len(x.columns)}

\* every position that is missing in the input is missing in the output
C13_MissingKept ==
    /\ out.kind = C13_Input.kind
    /\ out.index = C13_Input.index
    /\ \A e \in entries(C13_Input, out) : isna(e[1]) => isna(e[2])

---------------------------------------------------------------------------
\* the entry of the reindexed Series under key k: NaN when the key is absent
Series_at(x, k) ==
    IF k \in Range(x.index) THEN Series_getitem(x, k) ELSE NaN

\* the entry of the reindexed DataFrame under (r, c)
DataFrame_at(x, r, c) ==
    IF r \in Range(x.index) /\ c \in Range(x.columns)
    THEN DataFrame_getitem(x, r, c) ELSE NaN

\* a binary operation without a fill value has returned
NoFillResult == call.op = "binary" /\ err = "" /\ call.fill_value = None

\* The triples (left entry, right entry, result entry) of the call that
\* returned, one for every key of the result: the entries of the two
\* reindexed operands and the entry of the result.
aligned_entries ==
    IF B.kind = "DataFrame"
    THEN {<<DataFrame_at(A, r, c), DataFrame_at(B, r, c),
            DataFrame_getitem(out, r, c)>>
          : r \in Range(out.index), c \in Range(out.columns)}
    ELSE IF A.kind = "Series"
    THEN {<<Series_at(A, k), Series_at(B, k), Series_getitem(out, k)>>
          : k \in Range(out.index)}
    ELSE {<<DataFrame_at(A, r, c),
            Series_at(B, IF call.axis = RowWise THEN c ELSE r),
            DataFrame_getitem(out, r, c)>>
          : r \in Range(out.index), c \in Range(out.columns)}

---------------------------------------------------------------------------
\* C15: a binary operation that returns gives a Series for two Series and a
\* DataFrame when an operand is a DataFrame (two DataFrames, or a DataFrame
\* and a Series on either axis).
C15_ResultKind ==
    call.op = "binary" /\ err = "" =>
        /\ out.kind = IF A.kind = "DataFrame" \/ B.kind = "DataFrame"
                      THEN "DataFrame" ELSE "Series"
        /\ out.kind = "DataFrame" =>
              /\ Len(out.values) = Len(out.index)
              /\ \A i \in DOMAIN out.values :
                    Len(out.values[i]) = Len(out.columns)

\* df.subtract(ser, axis=0) has returned a DataFrame of two rows and two
\* columns for a DataFrame and a Series.
C15_Witness ==
    /\ FrameSeriesCall /\ call.axis = ColumnWise /\ err = ""
    /\ A.kind = "DataFrame" /\ B.kind = "Series" /\ Len(B.index) = 1
    /\ out.kind = "DataFrame"
    /\ Len(out.index) = 2 /\ Len(out.columns) = 2

---------------------------------------------------------------------------
\* the keys a lookup in x on the axis can find
held(x, axis) ==
    IF x.kind = "Series" \/ axis = ColumnWise THEN Range(x.index)
    ELSE Range(x.columns)

\* The keys of the operands on the axis of a lookup in the result of the
\* binary operation c: the union of the keys of A and B where the operation
\* aligned them, the keys of A on the other axis of a DataFrame with a
\* Series.
operand_keys(c, axis) ==
    IF B.kind = "DataFrame"
    THEN held(A, axis) \cup held(B, axis)
    ELSE IF A.kind = "Series" THEN Range(A.index) \cup Range(B.index)
    ELSE IF axis = c.axis THEN held(A, axis) \cup Range(B.index)
    ELSE held(A, axis)

\* C16: a lookup of a key the container does not hold raises KeyError and
\* returns nothing; a lookup in the result of a binary operation succeeds
\* for every key of either operand, also a key one operand lacked; a binary
\* operation never raises KeyError.
C16_LookupFailsOnlyOutsideUnion ==
    /\ call.op = "getitem" =>
          /\ call.key \notin held(call.obj, call.axis) =>
                err = "KeyError" /\ out = NoResult
          /\ call.key \in held(call.obj, call.axis) =>
                err = "" /\ out.kind \in {"scalar", "Series"}
          /\ call.name = "out"
                /\ call.key \in operand_keys(call.after, call.axis) =>
                err = "" /\ out.kind \in {"scalar", "Series"}
    /\ call.op = "binary" => err # "KeyError"

\* (A + B)[0] on the notebook's Series: key 0 is in A only, the lookup in
\* the sum succeeds and gives NaN.
C16_Witness ==
    /\ call.op = "getitem" /\ call.name = "out" /\ call.key = 0
    /\ A = A_Series /\ B = B_Series
    /\ 0 \notin Range(B.index)
    /\ call.after.f = "add" /\ call.after.fill_value = None
    /\ err = ""
    /\ out = [kind |-> "scalar", value |-> NaN]

---------------------------------------------------------------------------
\* a method call with a fill value has returned for two DataFrames whose
\* stored values are all numbers
NumericFillResult ==
    /\ FrameResult /\ call.fill_value # None
    /\ A \in NumericFrameSet /\ B \in NumericFrameSet

---------------------------------------------------------------------------
\* C19: at every key where both operands hold a number the result of a
\* binary operation is f of the two numbers, with no fill value and with
\* any fill value.
C19_BothPresentIgnoresFill ==
    call.op = "binary" /\ err = "" =>
        \A t \in aligned_entries :
            ~isna(t[1]) /\ ~isna(t[2]) =>
                t[3] = Num(apply2(call.f, t[1][1], t[2][1]))

\* A.subtract(B, fill_value=1) has returned for Series that both hold
\* numbers at key 1, while key 0 is in A only: the result at 1 is the
\* difference of the two numbers, the result at 0 is the number of A less
\* the fill value.
C19_Witness ==
    /\ SeriesResult /\ call.f = "sub" /\ call.fill_value = Num(1)
    /\ 0 \in Range(A.index) /\ 0 \notin Range(B.index)
    /\ 1 \in Range(A.index) /\ 1 \in Range(B.index)
    /\ Series_getitem(A, 0) = Num(2) /\ Series_getitem(A, 1) = Num(1)
    /\ Series_getitem(B, 1) = Num(2)
    /\ Series_getitem(out, 1) = Num(0 - 1)
    /\ Series_getitem(out, 0) = Num(1)

---------------------------------------------------------------------------
\* a value of a container: NaN or a number
is_value(v) == isna(v) \/ (Len(v) = 1 /\ v[1] \in Int)

\* The container is well formed: the keys of a Series are distinct and it
\* has one value per key; the row keys and the column keys of a DataFrame
\* are distinct and it has one value for every (row key, column key).
well_formed(x) ==
    CASE x.kind = "Series" ->
           /\ is_unique(x.index)
           /\ DOMAIN x.values = 1..Len(x.index)
           /\ \A i \in DOMAIN x.values : is_value(x.values[i])
      [] x.kind = "DataFrame" ->
           /\ is_unique(x.index) /\ is_unique(x.columns)
           /\ DOMAIN x.values = 1..Len(x.index)
           /\ \A i \in DOMAIN x.values :
                 /\ DOMAIN x.values[i] = 1..Len(x.columns)
                 /\ \A j \in DOMAIN x.values[i] : is_value(x.values[i][j])
      [] OTHER -> TRUE

\* C20: every container of a session is well formed: the operands as
\* constructed, the results of unary and binary operations, and the
\* operands that are results of earlier operations.
C20_ContainersWellFormed ==
    /\ well_formed(A) /\ well_formed(B) /\ well_formed(out)
    /\ call.op = "ufunc_result" => well_formed(call.arg)
    /\ call.op = "getitem" => well_formed(call.obj)

\* In the session of the notebook's DataFrames, A has been rebound to a
\* result that holds the keys of both frames, and an operation on it and B
\* has returned a DataFrame of three rows and three columns.
C20_Witness ==
    /\ rebinds = 1 /\ B = B_DataFrame
    /\ A.kind = "DataFrame" /\ A.index = <<0, 1, 2>> /\ A.columns = <<0, 1, 2>>
    /\ call.op = "binary" /\ out.kind = "DataFrame"
    /\ Len(out.index) = 3 /\ Len(out.columns) = 3
    /\ \E i \in 1..3, j \in 1..3 : isna(A.values[i][j])

=============================================================================
